---- MODULE Spec2Model ----
(***************************************************************************)
(* Model of rflib/rf_notes_to_stix2.py: the conversion of one Recorded     *)
(* Future analyst note into STIX2 objects (StixNote.from_json), the        *)
(* inference of relationships (StixNote.create_relations) and the report   *)
(* that references them (StixNote.to_stix_objects).                        *)
(*                                                                         *)
(* Text that the code takes apart (names, patterns, file names, urls) is   *)
(* a sequence of one-character strings; an id is the sequence              *)
(* <<type, "--">> followed by the data the id is derived from (pycti's     *)
(* generate_id and stix2's ids of observables are UUIDv5 digests of that   *)
(* data: the digest is taken to be injective), or by a version-4 UUID     *)
(* drawn by stix2 when the code passes no id.                              *)
(***************************************************************************)
EXTENDS Integers, Sequences, FiniteSets, TLC

\* ------------------------------------------------------------------ bounds

\* Longest list of note entities.
MaxEntities == 3

\* Largest risk score the scoring service answers; the largest threshold is
\* one less.
MaxScore == 2

\* Longest list of topics.
MaxTopics == 2

\* ------------------------------------------------------------------- text

RECURSIVE Rep(_, _)
Rep(c, n) == IF n = 0 THEN <<>> ELSE <<c>> \o Rep(c, n - 1)

\* str.split(sep): the segments between the occurrences of sep.
RECURSIVE Split(_, _)
Split(s, sep) ==
    IF \A k \in 1..Len(s) : s[k] # sep
    THEN <<s>>
    ELSE LET k == CHOOSE k \in 1..Len(s) :
                      s[k] = sep /\ \A j \in 1..(k - 1) : s[j] # sep
         IN  <<SubSeq(s, 1, k - 1)>> \o Split(SubSeq(s, k + 1, Len(s)), sep)

\* The arguments of an id generator, one after the other.
RECURSIVE Join(_)
Join(args) ==
    IF args = <<>> THEN <<>>
    ELSE IF Len(args) = 1 THEN args[1]
    ELSE args[1] \o <<"|">> \o Join(Tail(args))

\* What stands for None where the code leaves a score unset.
NoScore == -1

\* The id of nothing: the created_by_ref (source_ref, ...) of an object that
\* has none.
NoRef == <<>>

\* ----------------------------------------------------------- stix objects

\* pycti's <Class>.generate_id(*args), and stix2's id of an observable.
GenerateId(type, args) == <<type, "--">> \o Join(args)

\* The id stix2 gives a domain object built without one: a random UUID.
RandomId(type, uuid) == <<type, "--", "uuid4", ToString(uuid)>>

\* A stix2 object: the properties the conversion sets or reads. A property
\* the constructor call does not pass keeps the value that stands for its
\* absence.
StixObject(type, id) ==
    [ type |-> type, id |-> id, name |-> <<>>, created_by_ref |-> NoRef,
      identity_class |-> "", pattern_type |-> "", pattern |-> <<>>,
      x_opencti_score |-> NoScore, value |-> <<>>, hash_algorithm |-> "",
      country |-> <<>>,
      x_opencti_location_type |-> "", x_mitre_id |-> <<>>,
      relationship_type |-> "",
      source_ref |-> NoRef, target_ref |-> NoRef ]

_create_author ==
    [ StixObject("identity",
                 GenerateId("identity",
                            << <<"Recorded Future">>, <<"organization">> >>))
      EXCEPT !.name = <<"Recorded Future">>, !.identity_class = "organization" ]

author == _create_author

\* ----------------------------------------------------- indicator builders

\* str.replace(old, new) for a one-character old.
RECURSIVE Replace(_, _, _)
Replace(s, old, new) ==
    IF s = <<>> THEN <<>>
    ELSE (IF Head(s) = old THEN new ELSE <<Head(s)>>)
         \o Replace(Tail(s), old, new)

IPAddress_create_pattern(name) ==
    <<"[ipv4-addr:value = '">> \o name \o <<"']">>

Domain_create_pattern(name) ==
    <<"[domain-name:value = '">> \o name \o <<"']">>

\* _create_pattern escaping the quotes before the backslashes.
URL_create_pattern_QuotesFirst(name) ==
    LET ioc1 == Replace(name, "'", <<"\\", "'">>)
        ioc  == Replace(ioc1, "\\", <<"\\", "\\">>)
    IN  <<"[url:value = '">> \o ioc \o <<"']">>

URL_create_pattern(name) ==
    LET ioc1 == Replace(name, "\\", <<"\\", "\\">>)
        ioc  == Replace(ioc1, "'", <<"\\", "'">>)
    IN  <<"[url:value = '">> \o ioc \o <<"']">>

\* What _determine_algorithm returns, or ConversionError where it raises.
ConversionError == "ConversionError"

\* _determine_algorithm falling back on MD5 instead of raising.
FileHash_determine_algorithm_Fallback(name) ==
    IF Len(name) = 64 THEN "SHA-256"
    ELSE IF Len(name) = 40 THEN "SHA-1"
    ELSE "MD5"

FileHash_determine_algorithm(name) ==
    IF Len(name) = 64 THEN "SHA-256"
    ELSE IF Len(name) = 40 THEN "SHA-1"
    ELSE IF Len(name) = 32 THEN "MD5"
    ELSE ConversionError

FileHash_create_pattern(name) ==
    <<"[file:hashes.'", FileHash_determine_algorithm(name), "' = '">>
    \o name \o <<"']">>

\* cls is the builder class: IPAddress, Domain, URL or FileHash.
_create_pattern(cls, name) ==
    CASE cls = "IPAddress" -> IPAddress_create_pattern(name)
      [] cls = "Domain"    -> Domain_create_pattern(name)
      [] cls = "URL"       -> URL_create_pattern(name)
      [] cls = "FileHash"  -> FileHash_create_pattern(name)

_create_indicator(cls, name, risk_score) ==
    [ StixObject("indicator",
                 GenerateId("indicator", << _create_pattern(cls, name) >>))
      EXCEPT !.name = name, !.pattern_type = "stix",
             !.pattern = _create_pattern(cls, name),
             !.created_by_ref = author.id,
             !.x_opencti_score = risk_score ]

\* The observable: stix2 derives its id from its value; the call passes no
\* created_by_ref.
_create_obs(cls, name) ==
    CASE cls = "IPAddress" ->
           [ StixObject("ipv4-addr", GenerateId("ipv4-addr", <<name>>))
             EXCEPT !.value = name ]
      [] cls = "Domain" ->
           [ StixObject("domain-name", GenerateId("domain-name", <<name>>))
             EXCEPT !.value = name ]
      [] cls = "URL" ->
           [ StixObject("url", GenerateId("url", <<name>>))
             EXCEPT !.value = name ]
      [] cls = "FileHash" ->
           [ StixObject("file",
                        GenerateId("file",
                           << <<FileHash_determine_algorithm(name)>>, name >>))
             EXCEPT !.value = name,
                    !.hash_algorithm = FileHash_determine_algorithm(name) ]

Indicator_create_rel(stix_indicator, stix_observable) ==
    [ StixObject("relationship",
                 GenerateId("relationship",
                    << <<"based-on">>, stix_indicator.id, stix_observable.id >>))
      EXCEPT !.relationship_type = "based-on",
             !.source_ref = stix_indicator.id,
             !.target_ref = stix_observable.id,
             !.created_by_ref = author.id ]

\* Indicator.to_stix_objects on a new builder: create_stix_objects, then the
\* three objects.
Indicator_to_stix_objects(cls, name, risk_score) ==
    LET stix_indicator  == _create_indicator(cls, name, risk_score)
        stix_observable == _create_obs(cls, name)
    IN  << stix_indicator, stix_observable,
           Indicator_create_rel(stix_indicator, stix_observable) >>

\* ---------------------------------------------------- descriptor builders

TTP_create_stix_objects(name) ==
    [ StixObject("attack-pattern",
                 GenerateId("attack-pattern", <<name, name>>))
      EXCEPT !.name = name, !.created_by_ref = author.id,
             !.x_mitre_id = name ]

Identity_type_to_class(type) ==
    CASE type = "Company"      -> "organization"
      [] type = "Organization" -> "organization"
      [] type = "Person"       -> "individual"
      [] type = "Industry"     -> "class"

Identity_create_stix_objects(name, type) ==
    [ StixObject("identity",
                 GenerateId("identity",
                            <<name, <<Identity_type_to_class(type)>> >>))
      EXCEPT !.name = name,
             !.identity_class = Identity_type_to_class(type),
             !.created_by_ref = author.id ]

ThreatActor_create_stix_objects(name) ==
    [ StixObject("threat-actor", GenerateId("threat-actor", <<name>>))
      EXCEPT !.name = name, !.created_by_ref = author.id ]

IntrusionSet_create_stix_objects(name) ==
    [ StixObject("intrusion-set", GenerateId("intrusion-set", <<name>>))
      EXCEPT !.name = name, !.created_by_ref = author.id ]

Malware_create_stix_objects(name) ==
    [ StixObject("malware", GenerateId("malware", <<name>>))
      EXCEPT !.name = name, !.created_by_ref = author.id ]

Vulnerability_create_stix_objects(name) ==
    [ StixObject("vulnerability", GenerateId("vulnerability", <<name>>))
      EXCEPT !.name = name, !.created_by_ref = author.id ]

\* Software.__init__ keeps no author and the call passes only the name; a
\* software object is an observable, whose id stix2 derives from the name.
Software_create_stix_objects(name) ==
    [ StixObject("software", GenerateId("software", <<name>>))
      EXCEPT !.name = name ]

Location_rf_type_to_stix(type) ==
    CASE type = "Country"         -> "Country"
      [] type = "City"            -> "City"
      [] type = "ProvinceOrState" -> "Administrative-Area"

\* The call passes no id and no created_by_ref: stix2 draws the id (uuid).
Location_create_stix_objects(name, type, uuid) ==
    [ StixObject("location", RandomId("location", uuid))
      EXCEPT !.name = name, !.country = name,
             !.x_opencti_location_type = Location_rf_type_to_stix(type) ]

\* The call passes no id and no created_by_ref: stix2 draws the id (uuid).
Campaign_create_stix_objects(name, uuid) ==
    [ StixObject("campaign", RandomId("campaign", uuid))
      EXCEPT !.name = name ]

\* ------------------------------------------------------- detection rule

\* DetectionRule.__init__: self.name = name.split(".")[0].
DetectionRule_name(name) == Split(name, ".")[1]

DetectionRule_supported(type) == type \in {"yara", "snort", "sigma"}

DetectionRule_create_stix_objects(name, type, content) ==
    [ StixObject("indicator", GenerateId("indicator", <<content>>))
      EXCEPT !.name = DetectionRule_name(name), !.pattern_type = type,
             !.pattern = content, !.created_by_ref = author.id ]

\* ------------------------------------------------------ builder instances

\* None, where a cache field holds no object yet.
None == StixObject("None", NoRef)

\* The truth value of a cache field: None is false, a stix2 object is true.
IsSet(obj) == obj # None

\* The subclasses of Indicator.
IndicatorClasses == {"IPAddress", "Domain", "URL", "FileHash"}

\* The classes that inherit RFStixEntity.to_stix_objects and its stix_obj.
StixObjClasses ==
    { "TLPMarking", "TTP", "Identity", "ThreatActor", "IntrusionSet",
      "Malware", "Vulnerability", "DetectionRule" }

\* The instance __init__ leaves: every cache field None, no risk score.
\* (content is the rule of a DetectionRule, type the type_ argument.)
NewBuilder(cls, name, type, content) ==
    [ cls |-> cls, name |-> name, type |-> type, content |-> content,
      risk_score |-> NoScore,
      stix_indicator |-> None, stix_observable |-> None,
      stix_relationship |-> None, stix_obj |-> None,
      software_object |-> None, location_object |-> None,
      campaign_object |-> None ]

\* No instance.
NoBuilder == NewBuilder("", <<>>, "", <<>>)

\* A to_stix_objects that finds nothing cached, whatever was built.
Cached_Never(o) == FALSE

\* The test each to_stix_objects makes before it builds: the cache fields
\* of the class hold objects.
Cached(o) ==
    CASE o.cls \in IndicatorClasses ->
           /\ IsSet(o.stix_indicator)
           /\ IsSet(o.stix_observable)
           /\ IsSet(o.stix_relationship)
      [] o.cls = "Software" -> IsSet(o.software_object)
      [] o.cls = "Location" -> IsSet(o.location_object)
      [] o.cls = "Campaign" -> IsSet(o.campaign_object)
      [] OTHER              -> IsSet(o.stix_obj)

\* create_stix_objects of the instance's class: the instance with the
\* cache fields the method assigns (uuid: the one stix2 draws, if any).
create_stix_objects(o, uuid) ==
    CASE o.cls \in IndicatorClasses ->
           LET stix_indicator  == _create_indicator(o.cls, o.name, o.risk_score)
               stix_observable == _create_obs(o.cls, o.name)
           IN  [ o EXCEPT !.stix_indicator = stix_indicator,
                          !.stix_observable = stix_observable,
                          !.stix_relationship =
                              Indicator_create_rel(stix_indicator,
                                                   stix_observable) ]
      [] o.cls \in {"TLPMarking", "TTP"} ->
           [ o EXCEPT !.stix_obj = TTP_create_stix_objects(o.name) ]
      [] o.cls = "Identity" ->
           [ o EXCEPT !.stix_obj = Identity_create_stix_objects(o.name, o.type) ]
      [] o.cls = "ThreatActor" ->
           [ o EXCEPT !.stix_obj = ThreatActor_create_stix_objects(o.name) ]
      [] o.cls = "IntrusionSet" ->
           [ o EXCEPT !.stix_obj = IntrusionSet_create_stix_objects(o.name) ]
      [] o.cls = "Malware" ->
           [ o EXCEPT !.stix_obj = Malware_create_stix_objects(o.name) ]
      [] o.cls = "Vulnerability" ->
           [ o EXCEPT !.stix_obj = Vulnerability_create_stix_objects(o.name) ]
      [] o.cls = "DetectionRule" ->
           [ o EXCEPT !.stix_obj =
                 DetectionRule_create_stix_objects(o.name, o.type, o.content) ]
      [] o.cls = "Software" ->
           [ o EXCEPT !.software_object = Software_create_stix_objects(o.name) ]
      [] o.cls = "Location" ->
           [ o EXCEPT !.location_object =
                 Location_create_stix_objects(o.name, o.type, uuid) ]
      [] o.cls = "Campaign" ->
           [ o EXCEPT !.campaign_object =
                 Campaign_create_stix_objects(o.name, uuid) ]

\* The list to_stix_objects returns: the cache fields of the class.
Returns(o) ==
    CASE o.cls \in IndicatorClasses ->
           << o.stix_indicator, o.stix_observable, o.stix_relationship >>
      [] o.cls = "Software" -> << o.software_object >>
      [] o.cls = "Location" -> << o.location_object >>
      [] o.cls = "Campaign" -> << o.campaign_object >>
      [] OTHER              -> << o.stix_obj >>

\* ------------------------------------------------------------ the tables

\* The keys of ENTITY_TYPE_MAPPER and the builder class of each.
MappedTypes ==
    { "IpAddress", "InternetDomainName", "URL", "Hash",
      "MitreAttackIdentifier", "Company", "Person", "Organization",
      "Malware", "CyberVulnerability", "Product", "Country", "City",
      "ProvinceOrState", "Industry", "Operation" }

ENTITY_TYPE_MAPPER(type) ==
    CASE type = "IpAddress"             -> "IPAddress"
      [] type = "InternetDomainName"    -> "Domain"
      [] type = "URL"                   -> "URL"
      [] type = "Hash"                  -> "FileHash"
      [] type = "MitreAttackIdentifier" -> "TTP"
      [] type \in {"Company", "Person", "Organization", "Industry"}
                                        -> "Identity"
      [] type = "Malware"               -> "Malware"
      [] type = "CyberVulnerability"    -> "Vulnerability"
      [] type = "Product"               -> "Software"
      [] type \in {"Country", "City", "ProvinceOrState"}
                                        -> "Location"
      [] type = "Operation"             -> "Campaign"

\* The types whose risk score from_json may fetch (the keys of
\* INDICATOR_TYPE_URL_MAPPER).
IndicatorTypes == {"IpAddress", "InternetDomainName", "URL", "Hash"}

\* StixNote.report_type_mapper.
ReportTopics ==
    { "Actor Profile", "Analyst On-Demand Report", "Cyber Threat Analysis",
      "Flash Report", "Geopolitical Flash Event",
      "Geopolitical Intelligence Summary", "Geopolitical Profile",
      "Geopolitical Threat Forecast", "Geopolitical Validated Event",
      "Hunting Package", "Indicator", "Informational",
      "Insikt Research Lead", "Malware/Tool Profile",
      "Regular Vendor Vulnerability Disclosures", "Sigma Rule",
      "SNORT Rule", "Source Profile", "The Record by Recorded Future",
      "Threat Lead", "TTP Instance", "Validated Intelligence Event",
      "Weekly Threat Landscape", "YARA Rule" }

report_type_mapper(topic) ==
    CASE topic \in { "Actor Profile", "Geopolitical Profile",
                     "Geopolitical Threat Forecast", "Threat Lead" }
           -> "Threat-Actor"
      [] topic \in { "Analyst On-Demand Report", "Cyber Threat Analysis",
                     "Flash Report", "Geopolitical Flash Event",
                     "Geopolitical Intelligence Summary", "Informational",
                     "The Record by Recorded Future",
                     "Weekly Threat Landscape" }
           -> "Threat-Report"
      [] topic \in { "Geopolitical Validated Event", "Source Profile",
                     "Validated Intelligence Event" }
           -> "Observed-Data"
      [] topic \in { "Hunting Package", "Sigma Rule", "TTP Instance" }
           -> "Attack-Pattern"
      [] topic \in { "Indicator", "SNORT Rule", "YARA Rule" }
           -> "Indicator"
      [] topic = "Insikt Research Lead" -> "Intrusion-Set"
      [] topic = "Malware/Tool Profile" -> "Malware"
      [] topic = "Regular Vendor Vulnerability Disclosures"
           -> "Vulnerability"

\* RELATIONSHIPS_MAPPER: the "to" list of the rule whose "from" is the type
\* (the first such rule; the table has at most one), or the empty list.
RELATIONSHIPS_MAPPER(from) ==
    CASE from \in {"threat-actor", "intrusion-set"} ->
           << [entity |-> "malware",        relation |-> "uses"],
              [entity |-> "vulnerability",  relation |-> "targets"],
              [entity |-> "attack-pattern", relation |-> "uses"],
              [entity |-> "location",       relation |-> "targets"],
              [entity |-> "identity",       relation |-> "targets"] >>
      [] from = "indicator" ->
           << [entity |-> "malware",       relation |-> "indicates"],
              [entity |-> "threat-actor",  relation |-> "indicates"],
              [entity |-> "intrusion-set", relation |-> "indicates"] >>
      [] from = "malware" ->
           << [entity |-> "attack-pattern", relation |-> "uses"],
              [entity |-> "location",       relation |-> "targets"],
              [entity |-> "identity",       relation |-> "targets"] >>
      [] OTHER -> << >>

\* ------------------------------------------------------------- the inputs

\* A note entity: {"type": ..., "name": ..., "id": ...}.
Entity(type, name, id) == [type |-> type, name |-> name, id |-> id]

\* The name an entity of each type carries in the notes below. Hash names
\* come in the three supported lengths and in one that is not.
HashNames == { Rep("a", 64), Rep("b", 40), Rep("c", 32), Rep("d", 3) }

NameOf(type) ==
    CASE type = "IpAddress"          -> <<"1", ".", "2">>
      [] type = "InternetDomainName" -> <<"a", ".", "b">>
      [] type = "URL"                -> <<"u", "/", "'">>
      [] OTHER                       -> <<"x">>

\* The set of known threat actor ids (tas), and the ids entities carry: one
\* in the set and one outside it.
KnownThreatActors == {"id1"}

\* Every kind of entity: each key of ENTITY_TYPE_MAPPER, "Source" and
\* "Technology" (no keys of it), and entities whose id is a known threat
\* actor's.
EntityPool ==
    { Entity(t, NameOf(t), "id2") : t \in (MappedTypes \ {"Hash"}) }
    \cup { Entity("Hash", h, "id2") : h \in HashNames }
    \cup { Entity(t, <<"x">>, "id2") : t \in {"Source", "Technology"} }
    \cup { Entity(t, <<"t">>, "id1") :
              t \in {"Person", "Organization", "Source", "Technology"} }

\* The entities the longer notes are made of: a known threat actor, a
\* person, an identity of class "class", a malware and an indicator (the
\* sources of the relationship rules and some of their targets).
CorePool ==
    { Entity("Organization", <<"t">>, "id1"),
      Entity("Person", <<"x">>, "id2"),
      Entity("Industry", <<"x">>, "id2"),
      Entity("Malware", <<"x">>, "id2"),
      Entity("IpAddress", NameOf("IpAddress"), "id2") }

SeqsUpTo(S, n) == UNION { [1..k -> S] : k \in 0..n }

\* The scores the scoring service answers, and the thresholds a session is
\* configured with (NoScore: none).
Scores == 0..MaxScore

Thresholds == {NoScore, 0, MaxScore - 1}

\* The attachment of a note: none, a rule, a file that is no rule.
NoAttachment ==
    [present |-> FALSE, name |-> <<>>, type |-> "", content |-> <<>>]

RuleAttachment ==
    [present |-> TRUE, name |-> <<"a", ".", "b", ".", "y", "a", "r">>,
     type |-> "yara", content |-> <<"rule a {}">>]

OtherAttachment ==
    [present |-> TRUE, name |-> <<"r">>, type |-> "pdf",
     content |-> <<"%PDF">>]

TopicPool == {"Indicator", "YARA Rule", "Actor Profile", "UnknownTopic"}

\* attr["title"], attr["published"], attr["validation_urls"].
Title == <<"T">>

Published == <<"2024-01-01">>

ValidationUrls ==
    << [name |-> <<"h", ":", "/", "/", "w", ".", "s", ".", "c", "/", "p">>] >>

\* -------------------------------------------------------------- the state

VARIABLES
    entities,            \* attr["note_entities"]
    topics,              \* the names of attr["topic"]
    attachment,          \* attr["attachment"], _type, _content
    person_to_ta, ta_to_intrusion_set, risk_as_score, risk_threshold, tas,
    pc,                  \* where the conversion stands
    i,                   \* the entity from_json's loop is at
    risk_score,          \* the loop body's local risk_score (lines 524-527)
    objects,             \* self.objects
    external_references, \* self.external_references
    report_types,        \* self.report_types
    labels,              \* self.labels
    log_warning,         \* the number of calls of helper.log_warning
    log_info,            \* the number of calls of helper.log_info
    uuids,               \* the random UUIDs stix2 has drawn
    error,               \* the exception that left from_json, if any
    report,              \* the report to_stix_objects builds
    rf_object,           \* a builder instance and its cache fields
    returned,            \* what each call of its to_stix_objects returned
    builds               \* the number of calls of its create_stix_objects

input == << entities, topics, attachment, person_to_ta, ta_to_intrusion_set,
            risk_as_score, risk_threshold, tas >>

vars == << entities, topics, attachment, person_to_ta, ta_to_intrusion_set,
           risk_as_score, risk_threshold, tas, pc, i, risk_score, objects,
           external_references, report_types, labels, log_warning, log_info,
           uuids, error, report, rf_object, returned, builds >>

\* The builder instance under repeated calls, and their record.
instance == << rf_object, returned, builds >>

NoReport ==
    [ id |-> NoRef, name |-> <<>>, created_by_ref |-> NoRef, labels |-> <<>>,
      report_types |-> <<>>, object_refs |-> <<>>,
      external_references |-> <<>>, object_marking_refs |-> "" ]

\* StixNote.__init__.
InitSession ==
    /\ tas = KnownThreatActors
    /\ pc = "new"
    /\ i = 1
    /\ risk_score = NoScore
    /\ objects = <<>>
    /\ external_references = <<>>
    /\ report_types = <<>>
    /\ labels = <<>>
    /\ log_warning = 0
    /\ log_info = 0
    /\ uuids = {}
    /\ error = ""
    /\ report = NoReport

\* The entity lists: at most MaxEntities entities of CorePool, or one entity
\* of any kind, alone, twice, before or after one of CorePool.
EntityLists ==
    SeqsUpTo(CorePool, MaxEntities)
    \cup { <<e>> : e \in EntityPool }
    \cup { <<e, e>> : e \in EntityPool }
    \cup { <<c, e>> : c \in CorePool, e \in EntityPool }
    \cup { <<e, c>> : c \in CorePool, e \in EntityPool }

\* The topics of a note whose entities vary.
DefaultTopics == <<"Indicator", "UnknownTopic">>

\* The notes, as <<entities, topics, attachment>>: the entities vary under
\* the default topics, with a rule attached or nothing; the topics vary (at
\* most MaxTopics of them) with no entity; a file that is no rule is
\* attached to a note of at most one entity.
Notes ==
    { <<es, DefaultTopics, a>> :
         es \in EntityLists, a \in {NoAttachment, RuleAttachment} }
    \cup { << <<>>, ts, NoAttachment >> :
              ts \in SeqsUpTo(TopicPool, MaxTopics) }
    \cup { <<es, DefaultTopics, OtherAttachment>> :
              es \in SeqsUpTo(EntityPool, 1) }

Init ==
    /\ \E note \in Notes :
          entities = note[1] /\ topics = note[2] /\ attachment = note[3]
    /\ person_to_ta \in BOOLEAN
    /\ ta_to_intrusion_set \in BOOLEAN
    /\ risk_as_score \in BOOLEAN
    /\ risk_threshold \in Thresholds
    /\ InitSession
    /\ rf_object = NoBuilder
    /\ returned = <<>>
    /\ builds = 0

\* -------------------------------------------------------------- from_json

\* url["name"].split("/")[2].split(".")[-2] for each validation url.
_generate_external_references(urls) ==
    [ k \in 1..Len(urls) |->
        LET labels_ == Split(Split(urls[k].name, "/")[3], ".")
        IN  [ source_name |-> labels_[Len(labels_) - 1],
              url |-> urls[k].name ] ]

\* The set ret that _create_report_types fills.
ReportTypeSet(topic_names) ==
    { report_type_mapper(topic_names[k]) :
        k \in { j \in 1..Len(topic_names) : topic_names[j] \in ReportTopics } }

\* The lists list(ret) may be: the order of a set's elements is not fixed.
ListsOfSet(S) ==
    { q \in [1..Cardinality(S) -> S] : { q[k] : k \in 1..Cardinality(S) } = S }

\* _create_report_types collecting into a list instead of a set.
_create_report_types_List(topic_names) ==
    LET known == SelectSeq(topic_names, LAMBDA t : t \in ReportTopics)
    IN  { [ k \in 1..Len(known) |-> report_type_mapper(known[k]) ] }

_create_report_types(topic_names) == ListsOfSet(ReportTypeSet(topic_names))

\* The calls of log_warning _create_report_types makes.
ReportTypeWarnings(topic_names) ==
    Cardinality({ k \in 1..Len(topic_names) : topic_names[k] \notin ReportTopics })

\* Lines 489-497: the note's attributes, before the loop over the entities.
FromJsonBegin ==
    /\ pc = "new"
    /\ external_references' = _generate_external_references(ValidationUrls)
    /\ report_types' \in _create_report_types(topics)
    /\ log_warning' = log_warning + ReportTypeWarnings(topics)
    /\ labels' = topics
    /\ pc' = "entities"
    /\ UNCHANGED << input, instance, i, risk_score, objects, log_info, uuids, error,
                    report >>

\* Branch with the test for "Source" ahead of the test for a known threat
\* actor.
Branch_SourceFirst(entity) ==
    IF person_to_ta /\ entity.type = "Person" THEN "person_to_ta"
    ELSE IF entity.type = "Source" THEN "source"
    ELSE IF entity.id \in tas THEN "known_ta"
    ELSE IF entity.type \notin MappedTypes THEN "unsupported"
    ELSE "builder"

\* The branch of the loop body an entity takes (lines 501-516).
Branch(entity) ==
    IF person_to_ta /\ entity.type = "Person" THEN "person_to_ta"
    ELSE IF entity.id \in tas THEN "known_ta"
    ELSE IF entity.type = "Source" THEN "source"
    ELSE IF entity.type \notin MappedTypes THEN "unsupported"
    ELSE "builder"

AtEntity == pc = "entities" /\ i <= Len(entities)

Truthy(x) == x # NoScore /\ x # 0

\* BelowThreshold with <= for <.
BelowThreshold_OrEqual(score, threshold) == score <= threshold

\* Line 530: the score is below the threshold.
BelowThreshold(score, threshold) == score < threshold

\* ENTITY_TYPE_MAPPER[type_](name, type_, self.author) returns: only
\* FileHash.__init__ can raise.
Constructs(entity) ==
    ~ ( ENTITY_TYPE_MAPPER(entity.type) = "FileHash"
        /\ FileHash_determine_algorithm(entity.name) = ConversionError )

\* rf_object.to_stix_objects() of the builder of class cls.
to_stix_objects(cls, name, type, score, uuid) ==
    CASE cls \in {"IPAddress", "Domain", "URL", "FileHash"} ->
           Indicator_to_stix_objects(cls, name, score)
      [] cls = "TTP"           -> << TTP_create_stix_objects(name) >>
      [] cls = "Identity"      -> << Identity_create_stix_objects(name, type) >>
      [] cls = "Malware"       -> << Malware_create_stix_objects(name) >>
      [] cls = "Vulnerability" -> << Vulnerability_create_stix_objects(name) >>
      [] cls = "Software"      -> << Software_create_stix_objects(name) >>
      [] cls = "Location"      -> << Location_create_stix_objects(name, type, uuid) >>
      [] cls = "Campaign"      -> << Campaign_create_stix_objects(name, uuid) >>

\* The UUIDs stix2 may draw next: one is never drawn twice, and which one
\* is drawn is not fixed (UUIDs are interchangeable: two candidates stand for
\* all of them).
FreshUuids(drawn) == (1..(Cardinality(drawn) + 2)) \ drawn

\* Lines 501-502.
EntityPersonToThreatActor ==
    /\ AtEntity
    /\ Branch(entities[i]) = "person_to_ta"
    /\ objects' = objects \o << ThreatActor_create_stix_objects(entities[i].name) >>
    /\ i' = i + 1
    /\ UNCHANGED << input, instance, pc, risk_score, external_references, report_types,
                    labels, log_warning, log_info, uuids, error, report >>

\* Lines 503-507.
EntityKnownThreatActor ==
    /\ AtEntity
    /\ Branch(entities[i]) = "known_ta"
    /\ objects' = objects \o
          << IF ta_to_intrusion_set /\ entities[i].type # "Person"
             THEN IntrusionSet_create_stix_objects(entities[i].name)
             ELSE ThreatActor_create_stix_objects(entities[i].name) >>
    /\ i' = i + 1
    /\ UNCHANGED << input, instance, pc, risk_score, external_references, report_types,
                    labels, log_warning, log_info, uuids, error, report >>

\* Lines 508-511.
EntitySource ==
    /\ AtEntity
    /\ Branch(entities[i]) = "source"
    /\ external_references' =
          Append(external_references,
                 [source_name |-> entities[i].name, url |-> entities[i].name])
    /\ i' = i + 1
    /\ UNCHANGED << input, instance, pc, risk_score, objects, report_types, labels,
                    log_warning, log_info, uuids, error, report >>

\* EntityUnsupported leaving the loop (break for continue).
EntityUnsupported_Break ==
    /\ AtEntity
    /\ Branch(entities[i]) = "unsupported"
    /\ log_warning' = log_warning + 1
    /\ i' = Len(entities) + 1
    /\ UNCHANGED << input, instance, pc, risk_score, objects, external_references,
                    report_types, labels, log_info, uuids, error, report >>

\* Lines 512-515.
EntityUnsupported ==
    /\ AtEntity
    /\ Branch(entities[i]) = "unsupported"
    /\ log_warning' = log_warning + 1
    /\ i' = i + 1
    /\ UNCHANGED << input, instance, pc, risk_score, objects, external_references,
                    report_types, labels, log_info, uuids, error, report >>

\* Line 517, where the builder's constructor raises: the exception leaves
\* from_json.
EntityRaise ==
    /\ AtEntity
    /\ Branch(entities[i]) = "builder"
    /\ ~ Constructs(entities[i])
    /\ pc' = "raised"
    /\ error' = ConversionError
    /\ UNCHANGED << input, instance, i, risk_score, objects, external_references,
                    report_types, labels, log_warning, log_info, uuids,
                    report >>

\* Lines 517-534: the fetched score is below the threshold.
EntitySkip ==
    /\ AtEntity
    /\ Branch(entities[i]) = "builder"
    /\ Constructs(entities[i])
    /\ entities[i].type \in IndicatorTypes
    /\ Truthy(risk_threshold)
    /\ \E fetched \in Scores :
         /\ BelowThreshold(fetched, risk_threshold)
         /\ risk_score' = fetched
    /\ log_info' = log_info + 1
    /\ i' = i + 1
    /\ UNCHANGED << input, instance, pc, objects, external_references, report_types,
                    labels, log_warning, uuids, error, report >>

\* Lines 517-545: the builder's objects are appended. fetched and refetched
\* are the answers of rfapi.get_risk_score at lines 527 and 540.
EntityBuild ==
    /\ AtEntity
    /\ Branch(entities[i]) = "builder"
    /\ Constructs(entities[i])
    /\ LET type_ == entities[i].type
           cls == ENTITY_TYPE_MAPPER(type_)
           gated == type_ \in IndicatorTypes /\ Truthy(risk_threshold)
           scored == type_ \in IndicatorTypes /\ risk_as_score
           random == cls \in {"Location", "Campaign"}
       IN  \E fetched \in (IF gated THEN Scores ELSE {NoScore}) :
             \E refetched \in (IF scored /\ ~ Truthy(fetched)
                               THEN Scores ELSE {NoScore}) :
               \E uuid \in (IF random THEN FreshUuids(uuids) ELSE {0}) :
                 LET score == IF scored
                              THEN (IF Truthy(fetched)
                                    THEN fetched ELSE refetched)
                              ELSE NoScore
                 IN  /\ gated => ~ BelowThreshold(fetched, risk_threshold)
                     /\ risk_score' = IF type_ \in IndicatorTypes
                                      THEN fetched ELSE risk_score
                     /\ objects' = objects \o
                           to_stix_objects(cls, entities[i].name, type_,
                                           score, uuid)
                     /\ uuids' = IF random THEN uuids \cup {uuid} ELSE uuids
    /\ i' = i + 1
    /\ UNCHANGED << input, instance, pc, external_references, report_types, labels,
                    log_warning, log_info, error, report >>

\* Lines 546-553, after the last entity: the rule attached, if any.
FromJsonEnd ==
    /\ pc = "entities"
    /\ i > Len(entities)
    /\ IF ~ attachment.present
       THEN pc' = "converted" /\ UNCHANGED << objects, error >>
       ELSE IF DetectionRule_supported(attachment.type)
       THEN /\ objects' = objects \o
                 << DetectionRule_create_stix_objects(
                        attachment.name, attachment.type, attachment.content) >>
            /\ pc' = "converted"
            /\ UNCHANGED error
       ELSE /\ pc' = "raised"
            /\ error' = ConversionError
            /\ UNCHANGED objects
    /\ UNCHANGED << input, instance, i, risk_score, external_references, report_types,
                    labels, log_warning, log_info, uuids, report >>

\* ------------------------------------------------------- create_relations

StixNote_create_rel(from_id, to_id, relation) ==
    [ StixObject("relationship",
                 GenerateId("relationship", << <<relation>>, from_id, to_id >>))
      EXCEPT !.relationship_type = relation,
             !.source_ref = from_id,
             !.target_ref = to_id,
             !.created_by_ref = author.id ]

RECURSIVE Flatten(_)
Flatten(seqs) ==
    IF seqs = <<>> THEN <<>> ELSE Head(seqs) \o Flatten(Tail(seqs))

\* TargetAccepted without the test of identity_class.
TargetAccepted_AnyIdentity(to_entity, target_entity) ==
    to_entity.entity = target_entity.type

\* Lines 621-624: the filter on the targets of a rule entry.
TargetAccepted(to_entity, target_entity) ==
    to_entity.entity # "identity" \/ target_entity.identity_class = "class"

\* Lines 615-631: the relationships of one entry of a rule.
RelationsTo(source_entity, to_entity, objs) ==
    LET target_entities ==
            SelectSeq(objs, LAMBDA obj : obj.type = to_entity.entity)
        accepted ==
            SelectSeq(target_entities,
                      LAMBDA obj : TargetAccepted(to_entity, obj))
    IN  [ k \in 1..Len(accepted) |->
            StixNote_create_rel(source_entity.id, accepted[k].id,
                                to_entity.relation) ]

\* Lines 607-631: the relationships of one source object.
RelationsFrom(source_entity, objs) ==
    LET to == RELATIONSHIPS_MAPPER(source_entity.type)
    IN  Flatten([ k \in 1..Len(to) |-> RelationsTo(source_entity, to[k], objs) ])

\* The list relationships of create_relations.
Relationships(objs) ==
    Flatten([ k \in 1..Len(objs) |-> RelationsFrom(objs[k], objs) ])

CreateRelations ==
    /\ pc = "converted"
    /\ objects' = objects \o Relationships(objects)
    /\ pc' = "related"
    /\ UNCHANGED << input, instance, i, risk_score, external_references, report_types,
                    labels, log_warning, log_info, uuids, error, report >>

\* -------------------------------------------------------- to_stix_objects

\* ObjectRefs over the objects that name their author only.
ObjectRefs_AuthoredOnly(objs) ==
    LET authored == SelectSeq(objs, LAMBDA obj : obj.created_by_ref # NoRef)
    IN  [ k \in 1..Len(authored) |-> authored[k].id ] \o << author.id >>

\* Line 657.
ObjectRefs(objs) == [ k \in 1..Len(objs) |-> objs[k].id ] \o << author.id >>

ToStixObjects ==
    /\ pc = "related"
    /\ report' =
         [ id |-> GenerateId("report", <<Title, Published>>),
           name |-> Title,
           created_by_ref |-> author.id,
           labels |-> labels,
           report_types |-> report_types,
           object_refs |-> ObjectRefs(objects),
           external_references |-> external_references,
           object_marking_refs |-> "white" ]
    /\ pc' = "done"
    /\ UNCHANGED << input, instance, i, risk_score, objects, external_references,
                    report_types, labels, log_warning, log_info, uuids,
                    error >>

Next ==
    \/ FromJsonBegin
    \/ EntityPersonToThreatActor
    \/ EntityKnownThreatActor
    \/ EntitySource
    \/ EntityUnsupported
    \/ EntityRaise
    \/ EntitySkip
    \/ EntityBuild
    \/ FromJsonEnd
    \/ CreateRelations
    \/ ToStixObjects

Spec == Init /\ [][Next]_vars

\* ------------------------------------- repeated calls of to_stix_objects

\* The most calls of to_stix_objects on one instance.
MaxCalls == 3

\* The longest URL value.
MaxUrlLen == 3

\* The URL values: every text of at most MaxUrlLen characters, each a
\* backslash, a single quote or a character that needs no escape.
UrlChars == {"\\", "'", "u"}

UrlValues == SeqsUpTo(UrlChars, MaxUrlLen)

\* The instances a caller constructs: the builder of every mapped entity
\* whose constructor returns, a URL builder of every URL value, a threat
\* actor and an intrusion set (lines 502-507), a marking, and the rule of
\* an attachment (line 550).
Builders ==
    { NewBuilder(ENTITY_TYPE_MAPPER(e.type), e.name, e.type, <<>>) :
         e \in { x \in EntityPool : x.type \in MappedTypes /\ Constructs(x) } }
    \cup { NewBuilder(cls, <<"t">>, "Organization", <<>>) :
              cls \in {"ThreatActor", "IntrusionSet"} }
    \cup { NewBuilder("URL", value, "URL", <<>>) : value \in UrlValues }
    \cup { NewBuilder("TLPMarking", <<"x">>, "", <<>>) }
    \cup { NewBuilder("DetectionRule", RuleAttachment.name,
                      RuleAttachment.type, RuleAttachment.content) }

\* One new instance and no call yet; no note is being converted.
InitBuilder ==
    /\ rf_object \in Builders
    /\ returned = <<>>
    /\ builds = 0
    /\ entities = <<>> /\ topics = <<>> /\ attachment = NoAttachment
    /\ person_to_ta = FALSE /\ ta_to_intrusion_set = FALSE
    /\ risk_as_score = FALSE /\ risk_threshold = NoScore
    /\ InitSession

\* The note and the session, which the calls on a builder leave alone.
session == << input, pc, i, risk_score, objects, external_references,
              report_types, labels, log_warning, log_info, error, report >>

\* rf_object.risk_score = ... (lines 528, 535-545), before or between calls.
SetRiskScore ==
    /\ rf_object.cls \in IndicatorClasses
    /\ \E score \in Scores :
          /\ score # rf_object.risk_score
          /\ rf_object' = [rf_object EXCEPT !.risk_score = score]
    /\ UNCHANGED << session, uuids, returned, builds >>

\* One call of to_stix_objects on an instance of one of classes: build
\* unless cached, return the cache fields.
ToStixObjectsCall(classes) ==
    /\ rf_object.cls \in classes
    /\ Len(returned) < MaxCalls
    /\ IF Cached(rf_object)
       THEN /\ returned' = Append(returned, Returns(rf_object))
            /\ UNCHANGED << rf_object, builds, uuids >>
       ELSE \E uuid \in FreshUuids(uuids) :
               /\ rf_object' = create_stix_objects(rf_object, uuid)
               /\ builds' = builds + 1
               /\ uuids' = IF rf_object.cls \in {"Location", "Campaign"}
                            THEN uuids \cup {uuid} ELSE uuids
               /\ returned' =
                     Append(returned,
                            Returns(create_stix_objects(rf_object, uuid)))
    /\ UNCHANGED session

\* RFStixEntity.to_stix_objects (lines 41-45).
CallRFStixEntity == ToStixObjectsCall(StixObjClasses)

\* Indicator.to_stix_objects (lines 71-77).
CallIndicator == ToStixObjectsCall(IndicatorClasses)

\* Software.to_stix_objects (lines 327-331).
CallSoftware == ToStixObjectsCall({"Software"})

\* Location.to_stix_objects (lines 351-355).
CallLocation == ToStixObjectsCall({"Location"})

\* Campaign.to_stix_objects (lines 370-374).
CallCampaign == ToStixObjectsCall({"Campaign"})

NextBuilder ==
    \/ SetRiskScore
    \/ CallRFStixEntity
    \/ CallIndicator
    \/ CallSoftware
    \/ CallLocation
    \/ CallCampaign

SpecBuilder == InitBuilder /\ [][NextBuilder]_vars

\* ------------------------------------------------------------- properties

Relations == { k \in 1..Len(objects) : objects[k].type = "relationship" }

InObjectRefs(id) ==
    \E k \in 1..Len(report.object_refs) : report.object_refs[k] = id

\* C1: once from_json, create_relations and to_stix_objects have run, the
\* source_ref and the target_ref of every relationship of the object list
\* (based-on, uses, targets, indicates) are among the report's object_refs.
C1_ReferentialClosure ==
    pc = "done" =>
      \A k \in Relations :
        /\ InObjectRefs(objects[k].source_ref)
        /\ InObjectRefs(objects[k].target_ref)

\* C1, reached: a report over a list that holds a based-on relationship and
\* an inferred one.
C1_Witness ==
    /\ pc = "done"
    /\ \E k \in Relations : objects[k].relationship_type = "based-on"
    /\ \E k \in Relations : objects[k].relationship_type = "indicates"
    /\ \E k \in Relations : objects[k].relationship_type = "targets"

Identities == { k \in 1..Len(objects) : objects[k].type = "identity" }

Actors ==
    { k \in 1..Len(objects) :
        objects[k].type \in {"threat-actor", "intrusion-set", "malware"} }

\* C2: after create_relations, a relationship whose target is an identity of
\* the list targets one of identity_class "class" (never "organization" or
\* "individual"), and every identity of class "class" is the target of a
\* "targets" relationship from every threat-actor, intrusion-set and malware
\* of the list.
C2_IdentityTargets ==
    pc \in {"related", "done"} =>
      /\ \A r \in Relations : \A o \in Identities :
            objects[r].target_ref = objects[o].id
               => objects[o].identity_class = "class"
      /\ \A o \in Identities : \A a \in Actors :
            objects[o].identity_class = "class" =>
               \E r \in Relations :
                  /\ objects[r].relationship_type = "targets"
                  /\ objects[r].source_ref = objects[a].id
                  /\ objects[r].target_ref = objects[o].id

\* C2, reached: relationships inferred over a list with an actor, an identity
\* of class "class" and one of another class.
C2_Witness ==
    /\ pc = "related"
    /\ Actors # {}
    /\ \E o \in Identities : objects[o].identity_class = "class"
    /\ \E o \in Identities : objects[o].identity_class = "individual"

\* The objects the step appended: objects' is objects followed by them.
Appended == SubSeq(objects', Len(objects) + 1, Len(objects'))

Extends == SubSeq(objects', 1, Len(objects)) = objects

\* The step appends exactly one object, of the type given and named after
\* the entity, and the loop goes on to the next entity.
YieldsOne(type) ==
    /\ Extends
    /\ Len(Appended) = 1
    /\ Appended[1].type = type
    /\ Appended[1].name = entities[i].name
    /\ pc' = "entities"
    /\ i' = i + 1
    /\ external_references' = external_references
    /\ log_warning' = log_warning

\* C3: in the loop of from_json, a "Person" under person_to_ta yields exactly
\* one threat-actor, in the known-threat-actor set or not; otherwise an
\* entity of that set yields exactly one intrusion-set when
\* ta_to_intrusion_set is set and it is no "Person", and exactly one
\* threat-actor in every other case; neither adds an external reference, logs
\* a warning nor calls a builder of ENTITY_TYPE_MAPPER, whatever the type.
C3_DispatchPrecedence ==
    [][ AtEntity =>
          IF person_to_ta /\ entities[i].type = "Person"
          THEN YieldsOne("threat-actor")
          ELSE IF entities[i].id \in tas
          THEN IF ta_to_intrusion_set /\ entities[i].type # "Person"
               THEN YieldsOne("intrusion-set")
               ELSE YieldsOne("threat-actor")
          ELSE TRUE ]_vars

\* C3, reached: a "Source" of the known-threat-actor set has become an
\* intrusion-set after a "Person" has become a threat-actor.
C3_Witness ==
    /\ pc = "entities"
    /\ i = 3
    /\ person_to_ta
    /\ entities[1].type = "Person"
    /\ entities[2].type = "Source"
    /\ entities[2].id \in tas
    /\ Len(objects) = 2
    /\ objects[1].type = "threat-actor"
    /\ objects[2].type = "intrusion-set"

\* The step appends an indicator, its observable and the based-on
\* relationship from the one to the other.
AppendsTriple ==
    /\ Extends
    /\ Len(Appended) = 3
    /\ Appended[1].type = "indicator"
    /\ Appended[2].type \in {"ipv4-addr", "domain-name", "url", "file"}
    /\ Appended[3].type = "relationship"
    /\ Appended[3].relationship_type = "based-on"
    /\ Appended[3].source_ref = Appended[1].id
    /\ Appended[3].target_ref = Appended[2].id

\* C4: the builder of a "Hash" entity takes SHA-256, SHA-1 or MD5 for a name
\* of 64, 40 or 32 characters, and for a name of any other length raises
\* ConversionError, which leaves from_json (nothing runs after it) with no
\* object appended for the entity.
C4_HashAlgorithm ==
    [][ /\ pc # "raised"
        /\ (AtEntity /\ entities[i].type = "Hash" /\ entities[i].id \notin tas)
           =>
           LET n == Len(entities[i].name)
               algorithm == IF n = 64 THEN "SHA-256"
                            ELSE IF n = 40 THEN "SHA-1" ELSE "MD5"
           IN  IF n \in {64, 40, 32}
               THEN /\ pc' = "entities"
                    /\ error' = ""
                    /\ objects' # objects =>
                         /\ AppendsTriple
                         /\ Appended[2].hash_algorithm = algorithm
                         /\ Appended[1].pattern =
                              <<"[file:hashes.'", algorithm, "' = '">>
                              \o entities[i].name \o <<"']">>
               ELSE /\ pc' = "raised"
                    /\ error' = ConversionError
                    /\ objects' = objects ]_vars

\* C4, reached: a hash of no known length after an entity that was built:
\* from_json has raised and the list holds the objects built before.
C4_Witness ==
    /\ pc = "raised"
    /\ error = ConversionError
    /\ i = 2
    /\ Len(entities) = 2
    /\ entities[2].type = "Hash"
    /\ Len(entities[2].name) \notin {64, 40, 32}
    /\ Len(objects) > 0

\* C5: with a threshold configured, an indicator entity for which a builder
\* is constructed and whose fetched score is below the threshold appends no
\* object and logs one info, and the loop goes on; any other appends its
\* indicator, observable and based-on relationship, and logs nothing.
C5_RiskGating ==
    [][ ( /\ AtEntity
          /\ entities[i].type \in IndicatorTypes
          /\ entities[i].id \notin tas
          /\ risk_threshold # NoScore
          /\ pc' # "raised" )
        =>
        /\ pc' = "entities"
        /\ i' = i + 1
        /\ IF risk_score' # NoScore /\ risk_score' < risk_threshold
           THEN objects' = objects /\ log_info' = log_info + 1
           ELSE AppendsTriple /\ log_info' = log_info ]_vars

\* C5, reached: of two indicator entities the first was skipped and the
\* second, whose score reaches the threshold, was appended.
C5_Witness ==
    /\ pc = "entities"
    /\ i = 3
    /\ risk_threshold # NoScore
    /\ entities[1].type \in IndicatorTypes
    /\ entities[2].type \in IndicatorTypes
    /\ log_info = 1
    /\ Len(objects) = 3
    /\ risk_score >= risk_threshold

\* C6: every object of the object list has the session's author as its
\* created_by_ref.
C6_CreatedByAuthor ==
    \A k \in 1..Len(objects) : objects[k].created_by_ref = author.id

\* The file name without its last extension: what stands before the last
\* period, or the whole name when it has none.
StripLastExtension(name) ==
    LET periods == { k \in 1..Len(name) : name[k] = "." }
    IN  IF periods = {} THEN name
        ELSE SubSeq(name, 1, (CHOOSE k \in periods :
                                 \A j \in periods : j <= k) - 1)

\* C7: the rule built from the attachment is named after the attachment's
\* file name without its last extension.
C7_RuleName ==
    \A k \in 1..Len(objects) :
       (objects[k].type = "indicator" /\ objects[k].pattern_type # "stix")
          => objects[k].name = StripLastExtension(attachment.name)

\* C8: two objects of the list that agree on everything but the id (built
\* from the same name and type) have the same id.
C8_ContentAddressed ==
    \A j, k \in 1..Len(objects) :
       [objects[j] EXCEPT !.id = NoRef] = [objects[k] EXCEPT !.id = NoRef]
          => objects[j].id = objects[k].id

Unsupported(entity) ==
    /\ ~ (person_to_ta /\ entity.type = "Person")
    /\ entity.id \notin tas
    /\ entity.type # "Source"
    /\ entity.type \notin MappedTypes

\* C9: the step of from_json's loop on an entity of an unsupported type
\* changes nothing but the count of warnings, which grows by one, and the
\* place in the loop, which moves to the next entity: the objects, the
\* external references and everything the later steps read are those of the
\* note without the entity.
C9_UnsupportedSkipped ==
    [][ (AtEntity /\ Unsupported(entities[i])) =>
          /\ log_warning' = log_warning + 1
          /\ i' = i + 1
          /\ UNCHANGED << input, instance, pc, risk_score, objects, external_references,
                          report_types, labels, log_info, uuids, error,
                          report >> ]_vars

\* C9, reached: a note whose first entity is unsupported, converted to the
\* object of its second entity and the rule attached.
C9_Witness ==
    /\ pc = "converted"
    /\ Len(entities) = 2
    /\ Unsupported(entities[1])
    /\ Len(objects) = 2
    /\ objects[1].name = entities[2].name
    /\ objects[2].pattern_type = "yara"
    /\ log_warning = ReportTypeWarnings(topics) + 1

SeqRange(q) == { q[k] : k \in 1..Len(q) }

\* C10: the report types are a list without duplicates of exactly the values
\* report_type_mapper gives the topics that are keys of it; a topic that is
\* no key is dropped with one warning each, and the conversion goes on to
\* the entities without an error.
C10_ReportTypes ==
    /\ pc # "new" =>
         /\ \A j, k \in 1..Len(report_types) :
               report_types[j] = report_types[k] => j = k
         /\ SeqRange(report_types) =
               { report_type_mapper(t) : t \in SeqRange(topics) \cap ReportTopics }
    /\ (pc = "entities" /\ i = 1) =>
         /\ error = ""
         /\ log_warning =
              Cardinality({ k \in 1..Len(topics) :
                              topics[k] \notin ReportTopics })

\* C10, reached: topics "Indicator" and "UnknownTopic" have given the report
\* types ["Indicator"] and one warning.
C10_Witness ==
    /\ pc = "entities"
    /\ i = 1
    /\ topics = <<"Indicator", "UnknownTopic">>
    /\ report_types = <<"Indicator">>
    /\ log_warning = 1

\* C11: idempotent construction. However many times to_stix_objects has
\* been called on an instance, its objects were built exactly once (never
\* before the first call), every call returned what the first call returned
\* (the same objects, so the same ids), and an indicator builder holds all
\* three of indicator, observable and relationship, or none of them.
C11_IdempotentConstruction ==
    /\ builds = (IF returned = <<>> THEN 0 ELSE 1)
    /\ \A k \in 1..Len(returned) :
          /\ returned[k] = returned[1]
          /\ returned[k] = Returns(rf_object)
          /\ \A j \in 1..Len(returned[k]) : IsSet(returned[k][j])
    /\ rf_object.cls \in IndicatorClasses =>
          Cardinality({ IsSet(rf_object.stix_indicator),
                        IsSet(rf_object.stix_observable),
                        IsSet(rf_object.stix_relationship) }) = 1

\* An indicator builder called again after its risk score was changed: a
\* rebuild would carry the new score.
C11_Witness ==
    /\ rf_object.cls \in IndicatorClasses
    /\ Len(returned) >= 2
    /\ returned[1][1].x_opencti_score # rf_object.risk_score

\* Each character of a value with its escape: a backslash before every
\* backslash and every single quote, in one pass from left to right.
RECURSIVE EscapeOnce(_)
EscapeOnce(value) ==
    IF value = <<>> THEN <<>>
    ELSE (IF Head(value) \in {"\\", "'"}
          THEN <<"\\", Head(value)>> ELSE <<Head(value)>>)
         \o EscapeOnce(Tail(value))

\* The number of backslashes and single quotes of a value.
Specials(value) ==
    Cardinality({ k \in 1..Len(value) : value[k] \in {"\\", "'"} })

\* What a reader of the pattern takes an escaped text to stand for: the
\* character after a backslash, and any other character as it is. A single
\* quote without its backslash (the end of the literal) and a backslash
\* with nothing after it give "malformed".
RECURSIVE Unescape(_)
Unescape(text) ==
    IF text = <<>> THEN <<>>
    ELSE IF Head(text) = "'" THEN <<"malformed">>
    ELSE IF Head(text) = "\\"
         THEN IF Len(text) = 1 THEN <<"malformed">>
              ELSE <<text[2]>> \o Unescape(SubSeq(text, 3, Len(text)))
    ELSE <<Head(text)>> \o Unescape(Tail(text))

\* C12: the pattern a URL builder has built is its value between
\* "[url:value = '" and "']" with every backslash and every single quote
\* escaped exactly once by one backslash, the characters in their order:
\* the escaped text is one character longer per backslash or quote, and
\* read back it is the value.
C12_UrlEscaping ==
    (rf_object.cls = "URL" /\ IsSet(rf_object.stix_indicator)) =>
        LET pattern == rf_object.stix_indicator.pattern
            ioc     == SubSeq(pattern, 2, Len(pattern) - 1)
        IN  /\ Len(pattern) >= 2
            /\ Head(pattern) = "[url:value = '"
            /\ pattern[Len(pattern)] = "']"
            /\ ioc = EscapeOnce(rf_object.name)
            /\ Len(ioc) = Len(rf_object.name) + Specials(rf_object.name)
            /\ Unescape(ioc) = rf_object.name

\* A URL builder has built the pattern of a value in which a single quote
\* stands before a backslash.
C12_Witness ==
    /\ rf_object.cls = "URL"
    /\ IsSet(rf_object.stix_indicator)
    /\ \E j, k \in 1..Len(rf_object.name) :
          j < k /\ rf_object.name[j] = "'" /\ rf_object.name[k] = "\\"

\* C13: once from_json and create_relations have run, no two objects of
\* the session's object list have the same id, and no two relationships
\* have the same relation, source and target.
C13_NoDuplicateObjects ==
    pc \in {"related", "done"} =>
        \A j, k \in 1..Len(objects) :
            j # k =>
               /\ objects[j].id # objects[k].id
               /\ (objects[j].type = "relationship"
                     /\ objects[k].type = "relationship")
                  => << objects[j].relationship_type, objects[j].source_ref,
                        objects[j].target_ref >>
                     # << objects[k].relationship_type, objects[k].source_ref,
                          objects[k].target_ref >>

====
